---- MODULE Spec2Model ----
(***************************************************************************)
(* Model of the notor e2e capture pipeline: the structured log collector   *)
(* (e2e/lib/log-collector.ts), the Obsidian launcher                       *)
(* (e2e/lib/obsidian-launcher.ts) and the standalone debug runner          *)
(* (e2e/run-and-collect.ts).                                               *)
(*                                                                         *)
(* The specifications share the variables:                                 *)
(*   Spec      the LogCollector object driven by console events            *)
(*   SpecRotate  long ingest runs of the collector                         *)
(*   SpecClose   closeObsidian called on a handle                          *)
(*   SpecSummary  queries and summaries on a filled collector              *)
(*   SpecResolve  the executable path launchObsidian chooses               *)
(*   SpecVaults   obsidian.json over a sequence of launches                *)
(*   SpecLogger   one call of the plugin logger read by the collector      *)
(*   SpecWait  waitForCDP against an endpoint whose probes fail            *)
(*   SpecRun   main() of the debug runner with launchObsidian,             *)
(*             the collector and closeObsidian                             *)
(***************************************************************************)
EXTENDS Integers, Sequences, FiniteSets, TLC

(* ------------------------------ bounds --------------------------------- *)
\* console lines / page errors delivered to one collector (Spec)
MaxLines == 3
\* largest configured maxEntries (Spec)
MaxCap == 2
\* entries ingested and largest maxEntries in the rotation runs (SpecRotate)
RotLines == 4
RotCap == 3
\* console lines delivered during one run of main() (SpecRun)
MaxRunLines == 1
\* largest readiness timeout, in poll intervals (SpecWait, SpecRun)
MaxTimeoutSteps == 5
\* a probe takes a multiple of ProbeTimeout / ProbeSteps
ProbeSteps == 8
\* closeObsidian calls made on one handle (SpecClose)
MaxCloseCalls == 2
\* the grace period passes in GraceSteps steps (SpecClose)
GraceSteps == 5
\* entries already in the buffer when the queries start (SpecSummary)
MaxSummaryEntries == 33
\* console lines delivered between the queries (SpecSummary)
MaxSummaryLines == 1

(* -------------------------- program constants -------------------------- *)
PollInterval == 500
ProbeTimeout == 2000
GracePeriod == 5000
DefaultMaxEntries == 10000
RecentErrorsMax == 20
RecentWarningsMax == 10
LastEntriesMax == 30

(* ------------------------------ variables ------------------------------ *)
VARIABLES
    \* LogCollector fields
    maxEntries,        \* options.maxEntries
    captureAll,        \* options.captureAll
    structuredLogs,    \* in-memory buffer of entries
    rawLogs,           \* in-memory list of raw console entries
    structuredStream,  \* [lines, state] of plugin-logs-*.jsonl
    rawStream,         \* [lines, state] of console-all-*.jsonl (state "null" when absent)
    disposed,          \* the disposed flag
    disposePc,         \* progress of the dispose() promise
    summaryFile,       \* content of latest-summary.json
    delivered,         \* number of events delivered by the page so far
    last,              \* the last collector operation and the state it started from
    effects,           \* side effects the collector has performed so far
    \* waitForCDP locals
    wpc,               \* position in waitForCDP
    timeout,           \* its timeout argument (ms)
    elapsed,           \* Date.now() - start (ms)
    probed,            \* a probe has been started
    \* launcher / runner state
    pc,                \* position in main()
    env,               \* the host: executable, config file, target behaviour
    obsidianPath,      \* launchObsidian's obsidianPath, "none" before it is computed
    child,             \* the spawned ChildProcess
    obsidian,          \* main's `obsidian` variable (the handle), or "undefined"
    collector,         \* main's `collector` variable is set
    browser,           \* the CDP session: "none", "open", "closed"
    config,            \* obsidian.json and its .e2e-backup
    calls              \* counters of the calls main made and their order

collVars == <<maxEntries, captureAll, structuredLogs, rawLogs, structuredStream,
              rawStream, disposed, disposePc, summaryFile, delivered, last, effects>>
waitVars == <<wpc, timeout, elapsed, probed>>
runVars == <<pc, env, obsidianPath, child, obsidian, collector, browser, config, calls>>
vars == <<collVars, waitVars, runVars>>

(* ----------------------------- JSON values ----------------------------- *)
\* Every JSON value the model uses is a record of one shape; an absent
\* property is "undefined" (0 for the message id).
Undefined == "undefined"
NoData == [kind |-> Undefined, ref |-> 0, err |-> Undefined]
UserData == [kind |-> "user", ref |-> 0, err |-> Undefined]

JsonNull == [kind |-> "null", timestamp |-> Undefined, level |-> Undefined,
             source |-> Undefined, message |-> 0, data |-> NoData]
JsonObj(ts, lvl, src, msg, d) == [kind |-> "obj", timestamp |-> ts, level |-> lvl,
                                    source |-> src, message |-> msg, data |-> d]

\* The text of a console line: whether it starts with LOG_PREFIX, whether
\* the remainder is valid JSON, and the value the remainder denotes.
Text(id, marker, valid, value) == [id |-> id, marker |-> marker, valid |-> valid, value |-> value]
NoText == Text(0, FALSE, FALSE, JsonNull)

\* The console lines the page may print as its id-th event.
Lines(id) ==
    { Text(id, FALSE, FALSE, JsonNull),                                        \* plain console output
      Text(id, TRUE, FALSE, JsonNull),                                         \* marker + malformed JSON
      Text(id, TRUE, TRUE, JsonNull),                                          \* marker + null
      Text(id, TRUE, TRUE, JsonObj(Undefined, Undefined, Undefined, id, NoData)), \* required fields missing
      Text(id, TRUE, TRUE, JsonObj("t", "info", "A", id, NoData)),
      Text(id, TRUE, TRUE, JsonObj("t", "warn", "A", id, UserData)),
      Text(id, TRUE, TRUE, JsonObj("t", "error", "B", id, NoData)) }

MsgTypes == {"log"}

(* ------------------------- pure helpers (JS) --------------------------- *)
\* slice(0, n) in place of slice(-n)
SliceFirst(s, n) ==
    IF n >= Len(s) THEN s ELSE SubSeq(s, 1, n)

\* Array.prototype.slice(-n): -0 is 0, so slice(-0) copies the whole array.
SliceLast(s, n) ==
    IF n = 0 THEN s
    ELSE IF n >= Len(s) THEN s
    ELSE SubSeq(s, Len(s) - n + 1, Len(s))

\* no marker test: every console line is taken for a structured one
StartsWithPrefixIgnored(text) == TRUE

\* text.startsWith(LOG_PREFIX)
StartsWithPrefix(text) == text.marker

\* JSON.parse(text.slice(LOG_PREFIX.length).trim()): throws on malformed input,
\* otherwise returns the value, whatever its shape.
ParseThrows(text) == ~text.valid
ParseValue(text) == text.value

\* JSON.stringify(entry) + "\n": a property whose value is undefined is omitted,
\* so { stack: undefined } is written as {}.
StringifyData(d) == IF d.kind = "stack" /\ d.err = Undefined
                    THEN [kind |-> "empty", ref |-> 0, err |-> Undefined] ELSE d
Stringify(entry) == [json |-> [entry EXCEPT !.data = StringifyData(entry.data)]]

\* a fallback recorded at error level
FallbackAsError(text) ==
    JsonObj("now", "error", "log-collector", 0,
            [kind |-> "fallback", ref |-> text.id, err |-> "SyntaxError"])

\* the fallback entry of handleConsoleMessage's catch block
Fallback(text) ==
    JsonObj("now", "warn", "log-collector", 0,
            [kind |-> "fallback", ref |-> text.id, err |-> "SyntaxError"])

\* the entry of the pageerror listener
PageErrorEntry(id, hasStack) ==
    JsonObj("now", "error", "page-error", id,
            [kind |-> "stack", ref |-> id, err |-> IF hasStack THEN "stack" ELSE Undefined])

RawEntry(text, type) == [timestamp |-> "now", type |-> type, text |-> text]

HasRequiredFields(e) ==
    /\ e.kind = "obj"
    /\ e.timestamp # Undefined
    /\ e.level # Undefined
    /\ e.source # Undefined
    /\ e.message # 0

(* ------------------------ LogCollector: queries ------------------------ *)
\* Reading a property of null throws a TypeError; of a number it is undefined.
IsNull(e) == e.kind = "null"
HasNull(s) == \E i \in 1..Len(s) : IsNull(s[i])

\* getLogsByLevel(level): [throws, value]
GetLogsByLevel(level) ==
    IF HasNull(structuredLogs)
    THEN [throws |-> TRUE, value |-> <<>>]
    ELSE [throws |-> FALSE,
          value |-> SelectSeq(structuredLogs, LAMBDA e : e.level = level)]

\* getLogsBySource(source): [throws, value]
GetLogsBySource(source) ==
    IF HasNull(structuredLogs)
    THEN [throws |-> TRUE, value |-> <<>>]
    ELSE [throws |-> FALSE,
          value |-> SelectSeq(structuredLogs, LAMBDA e : e.source = source)]

\* getStructuredLogs()
GetStructuredLogs == structuredLogs

\* Array.prototype.some visits the elements in order and stops at the first hit.
RECURSIVE SomeError(_, _)
SomeError(s, i) ==
    IF i > Len(s) THEN [throws |-> FALSE, value |-> FALSE]
    ELSE IF IsNull(s[i]) THEN [throws |-> TRUE, value |-> FALSE]
    ELSE IF s[i].level = "error" THEN [throws |-> FALSE, value |-> TRUE]
    ELSE SomeError(s, i + 1)

\* hasErrors(): [throws, value]
HasErrors == SomeError(structuredLogs, 1)

Sources(s) == { s[i].source : i \in 1..Len(s) }

\* the summary with its error count taken from the truncated list
SummaryOfCountsRecent(s) ==
    [present |-> TRUE,
     totalEntries |-> Len(s),
     errors |-> Len(SliceLast(SelectSeq(s, LAMBDA e : e.level = "error"), RecentErrorsMax)),
     warnings |-> Len(SelectSeq(s, LAMBDA e : e.level = "warn")),
     sources |-> Sources(s),
     recentErrors |-> SliceLast(SelectSeq(s, LAMBDA e : e.level = "error"), RecentErrorsMax),
     recentWarnings |-> SliceLast(SelectSeq(s, LAMBDA e : e.level = "warn"), RecentWarningsMax),
     lastEntries |-> SliceLast(s, LastEntriesMax)]

\* the object writeSummary serialises (generatedAt left out)
SummaryOf(s) ==
    [present |-> TRUE,
     totalEntries |-> Len(s),
     errors |-> Len(SelectSeq(s, LAMBDA e : e.level = "error")),
     warnings |-> Len(SelectSeq(s, LAMBDA e : e.level = "warn")),
     sources |-> Sources(s),
     recentErrors |-> SliceLast(SelectSeq(s, LAMBDA e : e.level = "error"), RecentErrorsMax),
     recentWarnings |-> SliceLast(SelectSeq(s, LAMBDA e : e.level = "warn"), RecentWarningsMax),
     lastEntries |-> SliceLast(s, LastEntriesMax)]

NoSummary ==
    [present |-> FALSE, totalEntries |-> 0, errors |-> 0, warnings |-> 0, sources |-> {},
     recentErrors |-> <<>>, recentWarnings |-> <<>>, lastEntries |-> <<>>]

\* writeSummary() throws when a filter meets null or when the file cannot be written
SummaryThrows(fsFails) == HasNull(structuredLogs) \/ fsFails

(* ------------------------ LogCollector: ingest ------------------------- *)
\* a rotation that keeps the oldest entries: slice(0, n) in place of slice(-n)
RotateKeepsOldest(logs, cap) ==
    IF Len(logs) > cap THEN SubSeq(logs, 1, cap \div 2) ELSE logs

\* the rotation of writeStructured
Rotate(logs, cap) ==
    IF Len(logs) > cap THEN SliceLast(logs, cap \div 2) ELSE logs

\* stream.write(line): a write after end() fails and appends nothing
StreamWrite(stream, line) ==
    IF stream.state = "open"
    THEN [stream EXCEPT !.lines = Append(@, line)]
    ELSE [stream EXCEPT !.failed = TRUE]

\* writeStructured(entry) with unshift in place of push
WriteStructuredPrepends(entry) ==
    IF disposed
    THEN UNCHANGED <<structuredLogs, structuredStream>>
    ELSE /\ structuredLogs' = Rotate(<<entry>> \o structuredLogs, maxEntries)
         /\ structuredStream' = StreamWrite(structuredStream, Stringify(entry))

\* writeStructured(entry)
WriteStructured(entry) ==
    IF disposed
    THEN UNCHANGED <<structuredLogs, structuredStream>>
    ELSE /\ structuredLogs' = Rotate(Append(structuredLogs, entry), maxEntries)
         /\ structuredStream' = StreamWrite(structuredStream, Stringify(entry))

\* the raw capture of handleConsoleMessage
CaptureRaw(text, type) ==
    IF captureAll /\ rawStream.state # "null"
    THEN /\ rawLogs' = Append(rawLogs, RawEntry(text, type))
         /\ rawStream' = StreamWrite(rawStream, RawEntry(text, type))
    ELSE UNCHANGED <<rawLogs, rawStream>>

\* what handleConsoleMessage hands to writeStructured for a marked line
IngestEntry(text) ==
    IF ParseThrows(text) THEN Fallback(text) ELSE ParseValue(text)

\* whether handleConsoleMessage lets an exception escape
IngestRaises(text) == FALSE

\* history of the last collector operation: the state it started from, the
\* entry it handed to writeStructured (if any) and whether it raised
Snapshot(op, text, entry, handed) ==
    [op |-> op, text |-> text, entry |-> entry, handed |-> handed,
     lenBefore |-> Len(structuredLogs), linesBefore |-> Len(structuredStream.lines),
     logsBefore |-> structuredLogs, disposedBefore |-> disposed, raised |-> FALSE]

\* handleConsoleMessage(msg)
HandleConsoleMessage(text, type) ==
    /\ CaptureRaw(text, type)
    /\ IF StartsWithPrefix(text)
       THEN /\ WriteStructured(IngestEntry(text))
            /\ last' = [Snapshot("console", text, IngestEntry(text), TRUE)
                          EXCEPT !.raised = IngestRaises(text)]
       ELSE /\ UNCHANGED <<structuredLogs, structuredStream>>
            /\ last' = Snapshot("console", text, JsonNull, FALSE)
    /\ delivered' = delivered + 1

\* the pageerror listener registered by attach
HandlePageError(hasStack) ==
    /\ WriteStructured(PageErrorEntry(delivered + 1, hasStack))
    /\ last' = Snapshot("pageerror", NoText, PageErrorEntry(delivered + 1, hasStack), TRUE)
    /\ delivered' = delivered + 1
    /\ UNCHANGED <<rawLogs, rawStream>>

(* ----------------------- LogCollector: lifecycle ----------------------- *)
\* the fields of a collector right after new LogCollector(options)
NewCollector(cap, all) ==
    [maxEntries |-> cap,
     captureAll |-> all,
     structuredLogs |-> <<>>,
     rawLogs |-> <<>>,
     structuredStream |-> [lines |-> <<>>, state |-> "open", failed |-> FALSE],
     rawStream |-> [lines |-> <<>>, state |-> IF all THEN "open" ELSE "null", failed |-> FALSE],
     disposed |-> FALSE]

NoEffects == [disposals |-> 0, summaries |-> 0, structuredEnds |-> 0, rawEnds |-> 0]

NoLast ==
    [op |-> "none", text |-> NoText, entry |-> JsonNull, handed |-> FALSE,
     lenBefore |-> 0, linesBefore |-> 0, logsBefore |-> <<>>, disposedBefore |-> FALSE,
     raised |-> FALSE]

\* the fields main's `collector` variable stands for before the constructor ran
Unconstructed ==
    [maxEntries |-> 0,
     captureAll |-> FALSE,
     structuredLogs |-> <<>>,
     rawLogs |-> <<>>,
     structuredStream |-> [lines |-> <<>>, state |-> "null", failed |-> FALSE],
     rawStream |-> [lines |-> <<>>, state |-> "null", failed |-> FALSE],
     disposed |-> FALSE]

InitCollectorFields(f) ==
    /\ maxEntries = f.maxEntries
    /\ captureAll = f.captureAll
    /\ structuredLogs = f.structuredLogs
    /\ rawLogs = f.rawLogs
    /\ structuredStream = f.structuredStream
    /\ rawStream = f.rawStream
    /\ disposed = f.disposed
    /\ disposePc = "idle"
    /\ effects = NoEffects
    /\ summaryFile = NoSummary
    /\ delivered = 0
    /\ last = NoLast

InitCollector(cap, all) == InitCollectorFields(NewCollector(cap, all))

\* collector = new LogCollector({ outputDir }): the summary file of an earlier
\* run, if any, is left as it is
ConstructCollector(cap, all) ==
    /\ maxEntries' = NewCollector(cap, all).maxEntries
    /\ captureAll' = NewCollector(cap, all).captureAll
    /\ structuredLogs' = NewCollector(cap, all).structuredLogs
    /\ rawLogs' = NewCollector(cap, all).rawLogs
    /\ structuredStream' = NewCollector(cap, all).structuredStream
    /\ rawStream' = NewCollector(cap, all).rawStream
    /\ disposed' = NewCollector(cap, all).disposed
    /\ UNCHANGED <<disposePc, effects, summaryFile, delivered, last>>

\* writeSummary(): the summary file after a call that did not throw
WriteSummaryFile == summaryFile' = SummaryOf(structuredLogs)

\* dispose() without its disposed guard
DisposeCallUnguarded(fsFails) ==
    /\ disposed' = TRUE
    /\ last' = Snapshot("dispose", NoText, JsonNull, FALSE)
    /\ IF SummaryThrows(fsFails)
       THEN /\ disposePc' = "rejected"
            /\ effects' = [effects EXCEPT !.disposals = @ + 1]
            /\ UNCHANGED <<summaryFile, structuredStream>>
       ELSE /\ WriteSummaryFile
            /\ structuredStream' = [structuredStream EXCEPT !.state = "ending"]
            /\ effects' = [effects EXCEPT !.disposals = @ + 1, !.summaries = @ + 1,
                                          !.structuredEnds = @ + 1]
            /\ disposePc' = "ending-structured"

\* dispose() whose guard holds only once the first call has returned
DisposeCallGuardAfterReturn(fsFails) ==
    IF disposed /\ disposePc = "resolved"
    THEN /\ last' = Snapshot("dispose-noop", NoText, JsonNull, FALSE)
         /\ UNCHANGED <<disposed, disposePc, summaryFile, structuredStream, effects>>
    ELSE DisposeCallUnguarded(fsFails)

\* dispose(), up to the first stream's end(): the guard, the flag, the summary.
\* A summary that throws rejects the promise with both streams still open.
DisposeCall(fsFails) ==
    IF disposed
    THEN /\ last' = Snapshot("dispose-noop", NoText, JsonNull, FALSE)
         /\ UNCHANGED <<disposed, disposePc, summaryFile, structuredStream, effects>>
    ELSE /\ disposed' = TRUE
         /\ last' = Snapshot("dispose", NoText, JsonNull, FALSE)
         /\ IF SummaryThrows(fsFails)
            THEN /\ disposePc' = "rejected"
                 /\ effects' = [effects EXCEPT !.disposals = @ + 1]
                 /\ UNCHANGED <<summaryFile, structuredStream>>
            ELSE /\ WriteSummaryFile
                 /\ structuredStream' = [structuredStream EXCEPT !.state = "ending"]
                 /\ effects' = [effects EXCEPT !.disposals = @ + 1, !.summaries = @ + 1,
                                               !.structuredEnds = @ + 1]
                 /\ disposePc' = "ending-structured"

\* the callback of structuredStream.end resolving without waiting for the
\* raw stream's own callback
StructuredFinishedResolvesAtOnce ==
    /\ disposePc = "ending-structured"
    /\ structuredStream' = [structuredStream EXCEPT !.state = "finished"]
    /\ disposePc' = "resolved"
    /\ IF rawStream.state # "null"
       THEN /\ rawStream' = [rawStream EXCEPT !.state = "ending"]
            /\ effects' = [effects EXCEPT !.rawEnds = @ + 1]
       ELSE UNCHANGED <<rawStream, effects>>

\* the callback of structuredStream.end
StructuredFinished ==
    /\ disposePc = "ending-structured"
    /\ structuredStream' = [structuredStream EXCEPT !.state = "finished"]
    /\ IF rawStream.state # "null"
       THEN /\ rawStream' = [rawStream EXCEPT !.state = "ending"]
            /\ effects' = [effects EXCEPT !.rawEnds = @ + 1]
            /\ disposePc' = "ending-raw"
       ELSE /\ disposePc' = "resolved"
            /\ UNCHANGED <<rawStream, effects>>

\* the callback of rawStream.end
RawFinished ==
    /\ disposePc = "ending-raw"
    /\ rawStream' = [rawStream EXCEPT !.state = "finished"]
    /\ disposePc' = "resolved"
    /\ UNCHANGED <<structuredStream, effects>>

(* --------------------- Spec: the collector on its own ------------------ *)
NoWait ==
    /\ wpc = "idle" /\ timeout = 0 /\ elapsed = 0 /\ probed = FALSE

\* signalable: the OS lets this process signal the target
NoEnv == [path |-> "override", exeExists |-> FALSE, configFile |-> "absent",
          signalable |-> TRUE]
NoChild == [spawned |-> FALSE, pid |-> FALSE, alive |-> FALSE, killed |-> FALSE,
            signals |-> <<>>]
NoConfig == [file |-> "absent", backup |-> "absent"]
\* failure: the step of main that threw into the catch block, "none" so far
NoCalls == [dispose |-> 0, close |-> 0, restores |-> 0, failure |-> "none"]

NoRun ==
    /\ pc = "none"
    /\ env = NoEnv
    /\ obsidianPath = "none"
    /\ child = NoChild
    /\ obsidian = [defined |-> FALSE, configBackupPath |-> FALSE]
    /\ collector = FALSE
    /\ browser = "none"
    /\ config = NoConfig
    /\ calls = NoCalls

Init ==
    /\ \E cap \in 1..MaxCap, all \in BOOLEAN : InitCollector(cap, all)
    /\ NoWait
    /\ NoRun

ConsoleEvent ==
    /\ delivered < MaxLines
    /\ \E text \in Lines(delivered + 1), type \in MsgTypes : HandleConsoleMessage(text, type)
    /\ UNCHANGED <<maxEntries, captureAll, disposed, disposePc, summaryFile, effects>>
    /\ UNCHANGED <<waitVars, runVars>>

PageErrorEvent ==
    /\ delivered < MaxLines
    /\ \E hasStack \in BOOLEAN : HandlePageError(hasStack)
    /\ UNCHANGED <<maxEntries, captureAll, disposed, disposePc, summaryFile, effects>>
    /\ UNCHANGED <<waitVars, runVars>>

Dispose ==
    /\ \E fsFails \in BOOLEAN : DisposeCall(fsFails)
    /\ UNCHANGED <<maxEntries, captureAll, structuredLogs, rawLogs, rawStream, delivered>>
    /\ UNCHANGED <<waitVars, runVars>>

StreamFrame ==
    UNCHANGED <<maxEntries, captureAll, structuredLogs, rawLogs, disposed,
                summaryFile, delivered, last>>

StructuredStreamFinished ==
    /\ StructuredFinished
    /\ StreamFrame
    /\ UNCHANGED <<waitVars, runVars>>

RawStreamFinished ==
    /\ RawFinished
    /\ StreamFrame
    /\ UNCHANGED <<waitVars, runVars>>

Next ==
    \/ ConsoleEvent
    \/ PageErrorEvent
    \/ Dispose
    \/ StructuredStreamFinished
    \/ RawStreamFinished

Spec == Init /\ [][Next]_vars

(* --------------- SpecRotate: long ingest runs, rotation ---------------- *)
\* the lines of the rotation runs: a well-formed entry or a malformed one
RotationLines(id) ==
    { Text(id, TRUE, FALSE, JsonNull),
      Text(id, TRUE, TRUE, JsonObj("t", "info", "A", id, NoData)),
      Text(id, TRUE, TRUE, JsonObj("t", "error", "B", id, NoData)) }

InitRotate ==
    /\ \E cap \in 1..RotCap : InitCollector(cap, FALSE)
    /\ NoWait
    /\ NoRun

RotateConsoleEvent ==
    /\ delivered < RotLines
    /\ \E text \in RotationLines(delivered + 1), type \in MsgTypes :
          HandleConsoleMessage(text, type)
    /\ UNCHANGED <<maxEntries, captureAll, disposed, disposePc, summaryFile, effects>>
    /\ UNCHANGED <<waitVars, runVars>>

RotatePageErrorEvent ==
    /\ delivered < RotLines
    /\ HandlePageError(TRUE)
    /\ UNCHANGED <<maxEntries, captureAll, disposed, disposePc, summaryFile, effects>>
    /\ UNCHANGED <<waitVars, runVars>>

NextRotate ==
    \/ RotateConsoleEvent
    \/ RotatePageErrorEvent

SpecRotate == InitRotate /\ [][NextRotate]_vars

(* ------------------------------ waitForCDP ----------------------------- *)
\* how long one probe may take: refused at once, answered late, or cut off by
\* req.setTimeout
ProbeDurations == { (ProbeTimeout * i) \div ProbeSteps : i \in 0..ProbeSteps }

\* const start = Date.now()
WaitStart(t) ==
    /\ wpc' = "check"
    /\ timeout' = t
    /\ elapsed' = 0
    /\ probed' = FALSE

\* the loop condition: Date.now() - start < timeout
WaitExpired == ~(elapsed < timeout)

\* while (...) { start a probe } / throw new Error("Timed out ...")
WaitCheck ==
    /\ wpc = "check"
    /\ IF WaitExpired
       THEN wpc' = "thrown" /\ UNCHANGED probed
       ELSE wpc' = "probe" /\ probed' = TRUE
    /\ UNCHANGED <<timeout, elapsed>>

\* the probe with the sleep inside the catch block: an answer without
\* webSocketDebuggerUrl goes straight back to the loop condition
WaitProbeSleepsOnlyOnError(outcome, d) ==
    /\ wpc = "probe"
    /\ outcome = "timeout" => d = ProbeTimeout
    /\ elapsed' = elapsed + d
    /\ wpc' = IF outcome = "ready" THEN "returned"
              ELSE IF outcome = "no-endpoint" THEN "check" ELSE "sleep"
    /\ UNCHANGED <<timeout, probed>>

\* the probe settles after d ms: the request failed, hit its 2000 ms timeout
\* (d = ProbeTimeout), or answered with or without webSocketDebuggerUrl
WaitProbe(outcome, d) ==
    /\ wpc = "probe"
    /\ outcome = "timeout" => d = ProbeTimeout
    /\ elapsed' = elapsed + d
    /\ wpc' = IF outcome = "ready" THEN "returned" ELSE "sleep"
    /\ UNCHANGED <<timeout, probed>>

\* await new Promise((r) => setTimeout(r, 500))
WaitSleep ==
    /\ wpc = "sleep"
    /\ elapsed' = elapsed + PollInterval
    /\ wpc' = "check"
    /\ UNCHANGED <<timeout, probed>>

(* ------------- SpecWait: an endpoint that never becomes ready ---------- *)
FailingOutcomes == {"refused", "timeout", "no-endpoint"}
Timeouts == { PollInterval * k : k \in 1..MaxTimeoutSteps }

InitWait ==
    /\ InitCollector(1, FALSE)
    /\ NoRun
    /\ wpc = "check"
    /\ timeout \in Timeouts
    /\ elapsed = 0
    /\ probed = FALSE

WaitLoopCheck == WaitCheck /\ UNCHANGED <<collVars, runVars>>

WaitProbeFails ==
    /\ \E outcome \in FailingOutcomes, d \in ProbeDurations : WaitProbe(outcome, d)
    /\ UNCHANGED <<collVars, runVars>>

WaitPollSleep == WaitSleep /\ UNCHANGED <<collVars, runVars>>

NextWait ==
    \/ WaitLoopCheck
    \/ WaitProbeFails
    \/ WaitPollSleep

SpecWait == InitWait /\ [][NextWait]_vars

(* ------------------------------ launcher ------------------------------- *)
\* launchObsidian: obsidianPath = process.env.OBSIDIAN_PATH || resolveObsidianPath()
ResolveThrows == env.path = "unresolvable"

\* setOpenVault(vaultPath): [threw, backupPath, config]
SetOpenVault ==
    IF config.file = "absent"
    THEN [threw |-> FALSE, backupPath |-> FALSE, config |-> config]
    ELSE IF config.file = "corrupt"
    THEN [threw |-> TRUE, backupPath |-> FALSE,
          config |-> [config EXCEPT !.backup = config.file]]
    ELSE [threw |-> FALSE, backupPath |-> TRUE,
          config |-> [file |-> "modified", backup |-> config.file]]

\* a restore that copies the backup back and leaves it in place
RestoreKeepsBackup ==
    IF config.backup # "absent"
    THEN [restored |-> TRUE, config |-> [config EXCEPT !.file = config.backup]]
    ELSE [restored |-> FALSE, config |-> config]

\* restoreObsidianConfig(backupPath): [restored, config]
RestoreObsidianConfig ==
    IF config.backup # "absent"
    THEN [restored |-> TRUE, config |-> [file |-> config.backup, backup |-> "absent"]]
    ELSE [restored |-> FALSE, config |-> config]

\* spawn(obsidianPath, args, ...): never throws; a missing executable gives a
\* ChildProcess without pid whose 'error' event is only logged
Spawn ==
    [spawned |-> TRUE, pid |-> env.exeExists, alive |-> env.exeExists,
     killed |-> FALSE, signals |-> <<>>]

\* subprocess.kill(signal): the signal is delivered to a live process only, and
\* only then is subprocess.killed set
Kill(c, signal) ==
    IF c.alive
    THEN [c EXCEPT !.killed = TRUE, !.signals = Append(@, signal),
                   !.alive = IF signal = "SIGKILL" THEN FALSE ELSE @]
    ELSE c

\* closeObsidian: if (obsidian.configBackupPath) restoreObsidianConfig(...)
CloseRestore ==
    IF obsidian.configBackupPath
    THEN /\ config' = RestoreObsidianConfig.config
         /\ calls' = [calls EXCEPT !.close = @ + 1,
                                   !.restores = @ + (IF RestoreObsidianConfig.restored THEN 1 ELSE 0)]
    ELSE /\ UNCHANGED config
         /\ calls' = [calls EXCEPT !.close = @ + 1]

\* a closeObsidian that returns after its wait without touching the config
CloseFinishNoRestore == UNCHANGED <<config, calls>>

\* closeObsidian after its wait: restore, log, return
CloseFinish ==
    IF obsidian.configBackupPath
    THEN /\ config' = RestoreObsidianConfig.config
         /\ calls' = [calls EXCEPT !.restores = @ + (IF RestoreObsidianConfig.restored THEN 1 ELSE 0)]
    ELSE UNCHANGED <<config, calls>>

(* ------------------- SpecRun: main() of the debug runner --------------- *)
\* main passes timeout: 30_000; the runs use a shorter stand-in
RunTimeout == PollInterval * MaxTimeoutSteps

Envs ==
    [path : {"override", "resolved", "unresolvable"},
     exeExists : BOOLEAN,
     configFile : {"absent", "orig", "corrupt"},
     signalable : {TRUE}]

InitRun ==
    /\ InitCollectorFields(Unconstructed)
    /\ NoWait
    /\ pc = "start"
    /\ env \in Envs
    /\ obsidianPath = "none"
    /\ child = NoChild
    /\ obsidian = [defined |-> FALSE, configBackupPath |-> FALSE]
    /\ collector = FALSE
    /\ browser = "none"
    /\ config = [file |-> env.configFile, backup |-> "absent"]
    /\ calls = NoCalls

\* main enters the catch block: the rest of the try block is skipped
Throw(cause) ==
    /\ pc' = "catch"
    /\ calls' = [calls EXCEPT !.failure = cause]

\* a step of main that may throw into the catch block
MayThrow(from, to, cause) ==
    /\ pc = from
    /\ \/ pc' = to /\ UNCHANGED calls
       \/ Throw(cause)

\* Step 1: npm run build, or --skip-build; a failed build ends in process.exit(1)
RunBuild ==
    /\ pc = "start"
    /\ pc' \in {"resolve", "exited"}
    /\ UNCHANGED <<collVars, waitVars, env, obsidianPath, child, obsidian, collector, browser, config, calls>>

\* launchObsidian, line 204
RunResolvePath ==
    /\ pc = "resolve"
    /\ IF ResolveThrows
       THEN Throw("resolve") /\ UNCHANGED obsidianPath
       ELSE pc' = "setvault" /\ obsidianPath' = env.path /\ UNCHANGED calls
    /\ UNCHANGED <<collVars, waitVars, env, child, obsidian, collector, browser, config>>

\* launchObsidian, line 209
RunSetOpenVault ==
    /\ pc = "setvault"
    /\ config' = SetOpenVault.config
    /\ obsidian' = [obsidian EXCEPT !.configBackupPath = SetOpenVault.backupPath]
    /\ IF SetOpenVault.threw THEN Throw("config") ELSE pc' = "spawn" /\ UNCHANGED calls
    /\ UNCHANGED <<collVars, waitVars, env, obsidianPath, child, collector, browser>>

\* launchObsidian, lines 220-247: spawn, register the listeners, call waitForCDP
RunSpawn ==
    /\ pc = "spawn"
    /\ child' = Spawn
    /\ WaitStart(RunTimeout)
    /\ pc' = "wait"
    /\ UNCHANGED <<collVars, env, obsidianPath, obsidian, collector, browser, config, calls>>

RunWaitCheck ==
    /\ pc = "wait"
    /\ WaitCheck
    /\ UNCHANGED <<collVars, runVars>>

\* the endpoint answers only while the spawned process is alive
RunWaitProbe ==
    /\ pc = "wait"
    /\ \E outcome \in FailingOutcomes \cup {"ready"}, d \in ProbeDurations :
          /\ outcome = "ready" => child.alive
          /\ WaitProbe(outcome, d)
    /\ UNCHANGED <<collVars, runVars>>

RunWaitSleep ==
    /\ pc = "wait"
    /\ WaitSleep
    /\ UNCHANGED <<collVars, runVars>>

\* waitForCDP's locals go out of scope when launchObsidian settles
WaitDone ==
    /\ wpc' = "idle"
    /\ timeout' = 0
    /\ elapsed' = 0
    /\ UNCHANGED probed

\* launchObsidian returns the handle: obsidian = await launchObsidian(...)
RunLaunchReturns ==
    /\ pc = "wait"
    /\ wpc = "returned"
    /\ WaitDone
    /\ obsidian' = [obsidian EXCEPT !.defined = TRUE]
    /\ pc' = "connect"
    /\ UNCHANGED <<collVars, env, obsidianPath, child, collector, browser, config, calls>>

\* waitForCDP throws: launchObsidian rejects and main's obsidian stays undefined
RunLaunchThrows ==
    /\ pc = "wait"
    /\ wpc = "thrown"
    /\ WaitDone
    /\ Throw("timeout")
    /\ UNCHANGED <<collVars, env, obsidianPath, child, obsidian, collector, browser, config>>

\* Step 3: chromium.connectOverCDP
RunConnect ==
    /\ pc = "connect"
    /\ \/ pc' = "page" /\ browser' = "open" /\ UNCHANGED calls
       \/ Throw("connect") /\ UNCHANGED browser
    /\ UNCHANGED <<collVars, waitVars, env, obsidianPath, child, obsidian, collector, config>>

\* if (!page) throw new Error("No page found ...")
RunGetPage ==
    /\ MayThrow("page", "collector", "page")
    /\ UNCHANGED <<collVars, waitVars, env, obsidianPath, child, obsidian, collector, browser, config>>

\* Step 4: new LogCollector({ outputDir }) and attach; mkdirSync may throw
RunCreateCollector ==
    /\ pc = "collector"
    /\ \/ /\ ConstructCollector(DefaultMaxEntries, TRUE)
          /\ collector' = TRUE
          /\ pc' = "load"
          /\ UNCHANGED calls
       \/ /\ Throw("collector")
          /\ UNCHANGED <<collVars, collector>>
    /\ UNCHANGED <<waitVars, env, obsidianPath, child, obsidian, browser, config>>

\* await page.waitForLoadState("domcontentloaded")
RunLoad ==
    /\ MayThrow("load", "shot1", "capture")
    /\ UNCHANGED <<collVars, waitVars, env, obsidianPath, child, obsidian, collector, browser, config>>

\* mkdirSync and the first page.screenshot
RunScreenshot1 ==
    /\ MayThrow("shot1", "sleep", "capture")
    /\ UNCHANGED <<collVars, waitVars, env, obsidianPath, child, obsidian, collector, browser, config>>

\* the summary written when the timer is started, not when it has fired
RunTimerSummaryFirst ==
    /\ pc = "sleep"
    /\ pc' = "shot2"
    /\ IF SummaryThrows(FALSE) THEN UNCHANGED summaryFile ELSE WriteSummaryFile
    /\ UNCHANGED <<maxEntries, captureAll, structuredLogs, rawLogs, structuredStream,
                   rawStream, disposed, disposePc, delivered, last, effects>>
    /\ UNCHANGED <<waitVars, env, obsidianPath, child, obsidian, collector, browser, config, calls>>

\* await new Promise((r) => setTimeout(r, DURATION_S * 1000))
RunTimer ==
    /\ pc = "sleep"
    /\ pc' = "shot2"
    /\ UNCHANGED <<collVars, waitVars, env, obsidianPath, child, obsidian, collector, browser, config, calls>>

\* the second page.screenshot
RunScreenshot2 ==
    /\ MayThrow("shot2", "summary", "capture")
    /\ UNCHANGED <<collVars, waitVars, env, obsidianPath, child, obsidian, collector, browser, config>>

\* Step 5: await collector.writeSummary(), then the report (which reads the
\* buffer the summary has just read)
RunWriteSummary ==
    /\ pc = "summary"
    /\ \E fsFails \in BOOLEAN :
          IF SummaryThrows(fsFails)
          THEN Throw("summary") /\ UNCHANGED summaryFile
          ELSE pc' = "dispose" /\ WriteSummaryFile /\ UNCHANGED calls
    /\ UNCHANGED <<maxEntries, captureAll, structuredLogs, rawLogs, structuredStream,
                   rawStream, disposed, disposePc, delivered, last, effects>>
    /\ UNCHANGED <<waitVars, env, obsidianPath, child, obsidian, collector, browser, config>>

DisposeFrame ==
    UNCHANGED <<maxEntries, captureAll, structuredLogs, rawLogs, rawStream, delivered>>

\* await collector.dispose() at line 140
RunDispose ==
    /\ pc = "dispose"
    /\ \E fsFails \in BOOLEAN : DisposeCall(fsFails)
    /\ pc' = IF disposePc' = "rejected" THEN "catch" ELSE "disposing"
    /\ calls' = [calls EXCEPT !.dispose = @ + 1,
                              !.failure = IF disposePc' = "rejected" THEN "dispose" ELSE @]
    /\ DisposeFrame
    /\ UNCHANGED <<waitVars, env, obsidianPath, child, obsidian, collector, browser, config>>

RunStructuredFinished ==
    /\ pc \in {"disposing", "catch-disposing"}
    /\ StructuredFinished
    /\ StreamFrame
    /\ UNCHANGED <<waitVars, runVars>>

RunRawFinished ==
    /\ pc \in {"disposing", "catch-disposing"}
    /\ RawFinished
    /\ StreamFrame
    /\ UNCHANGED <<waitVars, runVars>>

\* the promise of line 140 resolves
RunDisposed ==
    /\ pc = "disposing"
    /\ disposePc = "resolved"
    /\ pc' = "bclose"
    /\ UNCHANGED <<collVars, waitVars, env, obsidianPath, child, obsidian, collector, browser, config, calls>>

\* await browser.close().catch(() => {})
RunBrowserClose ==
    /\ pc = "bclose"
    /\ browser' \in {"closed", "open"}
    /\ pc' = "finally"
    /\ UNCHANGED <<collVars, waitVars, env, obsidianPath, child, obsidian, collector, config, calls>>

\* catch (err) { if (collector) await collector.dispose().catch(() => {}) }
RunCatch ==
    /\ pc = "catch"
    /\ IF collector
       THEN /\ \E fsFails \in BOOLEAN : DisposeCall(fsFails)
            /\ pc' = IF disposePc' \in {"ending-structured", "ending-raw"} /\ ~disposed
                     THEN "catch-disposing" ELSE "finally"
            /\ calls' = [calls EXCEPT !.dispose = @ + 1]
            /\ DisposeFrame
       ELSE /\ pc' = "finally"
            /\ UNCHANGED <<collVars, calls>>
    /\ UNCHANGED <<waitVars, env, obsidianPath, child, obsidian, collector, browser, config>>

\* the promise of line 147 resolves
RunCatchDisposed ==
    /\ pc = "catch-disposing"
    /\ disposePc = "resolved"
    /\ pc' = "finally"
    /\ UNCHANGED <<collVars, waitVars, env, obsidianPath, child, obsidian, collector, browser, config, calls>>

\* finally { if (obsidian) await closeObsidian(obsidian) }: closeObsidian up to
\* its wait (lines 262-273)
RunFinally ==
    /\ pc = "finally"
    /\ IF ~obsidian.defined
       THEN /\ pc' = "done"
            /\ UNCHANGED <<child, config, calls>>
       ELSE IF child.killed
       THEN /\ CloseRestore
            /\ pc' = "done"
            /\ UNCHANGED child
       ELSE /\ child' = Kill(child, "SIGTERM")
            /\ calls' = [calls EXCEPT !.close = @ + 1]
            /\ pc' = "closing"
            /\ UNCHANGED config
    /\ UNCHANGED <<collVars, waitVars, env, obsidianPath, obsidian, collector, browser>>

\* closeObsidian: the process exits within the grace period, the 'exit'
\* listener clears the timer and resolves
RunCloseOnExit ==
    /\ pc = "closing"
    /\ child.alive
    /\ child' = [child EXCEPT !.alive = FALSE]
    /\ CloseFinish
    /\ pc' = "done"
    /\ UNCHANGED <<collVars, waitVars, env, obsidianPath, obsidian, collector, browser>>

\* closeObsidian: the 5 s timer fires first
RunCloseOnTimer ==
    /\ pc = "closing"
    /\ child' = IF ~child.killed THEN Kill(child, "SIGKILL") ELSE child
    /\ CloseFinish
    /\ pc' = "done"
    /\ UNCHANGED <<collVars, waitVars, env, obsidianPath, obsidian, collector, browser>>

\* the target dies on its own
ChildExits ==
    /\ pc \notin {"closing", "done", "exited"}
    /\ child.alive
    /\ child' = [child EXCEPT !.alive = FALSE]
    /\ UNCHANGED <<collVars, waitVars, pc, env, obsidianPath, obsidian, collector, browser, config, calls>>

\* the page delivers events while the session is attached and the target lives
Delivering ==
    /\ collector
    /\ browser = "open"
    /\ child.alive
    /\ pc \notin {"done", "exited"}
    /\ delivered < MaxRunLines

RunConsoleEvent ==
    /\ Delivering
    /\ \E text \in Lines(delivered + 1), type \in MsgTypes : HandleConsoleMessage(text, type)
    /\ UNCHANGED <<maxEntries, captureAll, disposed, disposePc, summaryFile, effects>>
    /\ UNCHANGED <<waitVars, runVars>>

RunPageErrorEvent ==
    /\ Delivering
    /\ \E hasStack \in BOOLEAN : HandlePageError(hasStack)
    /\ UNCHANGED <<maxEntries, captureAll, disposed, disposePc, summaryFile, effects>>
    /\ UNCHANGED <<waitVars, runVars>>

NextRun ==
    \/ RunBuild
    \/ RunResolvePath
    \/ RunSetOpenVault
    \/ RunSpawn
    \/ RunWaitCheck
    \/ RunWaitProbe
    \/ RunWaitSleep
    \/ RunLaunchReturns
    \/ RunLaunchThrows
    \/ RunConnect
    \/ RunGetPage
    \/ RunCreateCollector
    \/ RunLoad
    \/ RunScreenshot1
    \/ RunTimer
    \/ RunScreenshot2
    \/ RunWriteSummary
    \/ RunDispose
    \/ RunStructuredFinished
    \/ RunRawFinished
    \/ RunDisposed
    \/ RunBrowserClose
    \/ RunCatch
    \/ RunCatchDisposed
    \/ RunFinally
    \/ RunCloseOnExit
    \/ RunCloseOnTimer
    \/ ChildExits
    \/ RunConsoleEvent
    \/ RunPageErrorEvent

SpecRun == InitRun /\ [][NextRun]_vars

(* ------------- SpecClose: closeObsidian called on a handle ------------- *)
\* The caller holds the handle a successful launchObsidian returned and calls
\* closeObsidian on it, one call after the other. pc is "held" between calls
\* and "closing" while a call awaits its promise; elapsed is the time since
\* that call's setTimeout.
GraceStep == GracePeriod \div GraceSteps

\* subprocess.kill(signal) on a process the OS may refuse to signal: kill()
\* then returns false (the 'error' event goes to the launcher's listener, which
\* logs it) and killed stays unset
TryKill(c, signal) == IF env.signalable THEN Kill(c, signal) ELSE c

\* the handle and the host right after a launch that returned
InitClose ==
    /\ InitCollector(1, FALSE)
    /\ wpc = "idle" /\ timeout = 0 /\ elapsed = 0 /\ probed = TRUE
    /\ pc = "held"
    /\ \E orig \in {"absent", "orig"}, signalable \in BOOLEAN :
          /\ env = [path |-> "resolved", exeExists |-> TRUE, configFile |-> orig,
                    signalable |-> signalable]
          /\ obsidian = [defined |-> TRUE, configBackupPath |-> (orig # "absent")]
          /\ config = IF orig = "absent" THEN NoConfig
                      ELSE [file |-> "modified", backup |-> orig]
    /\ obsidianPath = "resolved"
    /\ child = [spawned |-> TRUE, pid |-> TRUE, alive |-> TRUE, killed |-> FALSE,
                signals |-> <<>>]
    /\ collector = FALSE
    /\ browser = "none"
    /\ calls = NoCalls

\* the body of the grace timer's callback: force-kill unless killed is set
GraceTimerKill ==
    IF ~child.killed THEN TryKill(child, "SIGKILL") ELSE child

\* the grace timer's callback resolves the promise in every case
GraceTimerResolvesUnlessKilled == ~child.killed

GraceTimerResolves == TRUE

\* closeObsidian(obsidian), lines 262-289: the early return for a handle whose
\* killed flag is set, otherwise SIGTERM, the timer and the 'exit' listener
CloseCall ==
    /\ pc = "held"
    /\ calls.close < MaxCloseCalls
    /\ IF child.killed
       THEN /\ CloseRestore
            /\ UNCHANGED <<pc, child, elapsed>>
       ELSE /\ child' = TryKill(child, "SIGTERM")
            /\ calls' = [calls EXCEPT !.close = @ + 1]
            /\ pc' = "closing"
            /\ elapsed' = 0
            /\ UNCHANGED config
    /\ UNCHANGED <<collVars, wpc, timeout, probed, env, obsidianPath, obsidian, collector, browser>>

\* time passes while closeObsidian waits
CloseTick ==
    /\ pc = "closing"
    /\ elapsed < GracePeriod
    /\ elapsed' = elapsed + GraceStep
    /\ UNCHANGED <<collVars, wpc, timeout, probed, runVars>>

\* the process exits within the grace period: the 'exit' listener clears the
\* timer and resolves, closeObsidian restores the config and returns
CloseOnExit ==
    /\ pc = "closing"
    /\ elapsed < GracePeriod
    /\ child.alive
    /\ child' = [child EXCEPT !.alive = FALSE]
    /\ CloseFinish
    /\ pc' = "held"
    /\ UNCHANGED <<collVars, waitVars, env, obsidianPath, obsidian, collector, browser>>

\* the grace timer fires: its callback, then the restore and the return
CloseOnTimer ==
    /\ pc = "closing"
    /\ elapsed >= GracePeriod
    /\ child' = GraceTimerKill
    /\ IF GraceTimerResolves
       THEN CloseFinish /\ pc' = "held"
       ELSE UNCHANGED <<config, calls, pc>>
    /\ UNCHANGED <<collVars, waitVars, env, obsidianPath, obsidian, collector, browser>>

\* the target dies on its own while no closeObsidian call is waiting
CloseTargetExits ==
    /\ pc = "held"
    /\ child.alive
    /\ child' = [child EXCEPT !.alive = FALSE]
    /\ UNCHANGED <<collVars, waitVars, pc, env, obsidianPath, obsidian, collector, browser, config, calls>>

NextClose ==
    \/ CloseCall
    \/ CloseTick
    \/ CloseOnExit
    \/ CloseOnTimer
    \/ CloseTargetExits

SpecClose == InitClose /\ [][NextClose]_vars

\* Node fires a due timer and the clock advances
SpecCloseFair == SpecClose /\ WF_vars(CloseTick) /\ WF_vars(CloseOnTimer)

(* ------------- SpecSummary: queries on a filled collector -------------- *)
\* The collector of `new LogCollector({ outputDir })` after the page printed
\* some structured lines: the buffer holds their entries, each stream one
\* record per line. From there the caller queries the collector and writes
\* summaries while the page prints up to MaxSummaryLines further lines.
SummaryLevelCycles ==
    {<<"info">>, <<"warn">>, <<"error">>, <<"error", "error", "warn">>,
     <<"info", "warn", "error">>}

\* n entries whose levels repeat the given cycle, printed by sources A, B, C in turn
PeriodicBuffer(n, levels) ==
    [i \in 1..n |->
        JsonObj("t", levels[((i - 1) % Len(levels)) + 1],
                <<"A", "B", "C">>[((i - 1) % Len(<<"A", "B", "C">>)) + 1], i, NoData)]

\* levels info, info, warn, info, error printed by A, B, A, C, B
ExampleBuffer ==
    <<JsonObj("t", "info", "A", 1, NoData), JsonObj("t", "info", "B", 2, NoData),
      JsonObj("t", "warn", "A", 3, NoData), JsonObj("t", "info", "C", 4, NoData),
      JsonObj("t", "error", "B", 5, NoData)>>

SummaryBuffers ==
    {PeriodicBuffer(n, levels) : n \in 0..MaxSummaryEntries, levels \in SummaryLevelCycles}
        \cup {ExampleBuffer}

\* the lines the page may still print
SummaryLines(id) ==
    { Text(id, FALSE, FALSE, JsonNull),
      Text(id, TRUE, TRUE, JsonNull),
      Text(id, TRUE, TRUE, JsonObj("t", "error", "B", id, NoData)) }

InitSummary ==
    /\ \E buffer \in SummaryBuffers :
          /\ structuredLogs = buffer
          /\ structuredStream =
                [lines |-> [i \in DOMAIN buffer |-> Stringify(buffer[i])],
                 state |-> "open", failed |-> FALSE]
          /\ rawLogs = [i \in DOMAIN buffer |->
                           RawEntry(Text(i, TRUE, TRUE, buffer[i]), "log")]
          /\ rawStream =
                [lines |-> [i \in DOMAIN buffer |->
                               RawEntry(Text(i, TRUE, TRUE, buffer[i]), "log")],
                 state |-> "open", failed |-> FALSE]
    /\ maxEntries = DefaultMaxEntries
    /\ captureAll = TRUE
    /\ disposed = FALSE
    /\ disposePc = "idle"
    /\ effects = NoEffects
    /\ summaryFile = NoSummary
    /\ delivered = 0
    /\ last = NoLast
    /\ NoWait
    /\ NoRun

SummaryConsoleEvent ==
    /\ delivered < MaxSummaryLines
    /\ \E text \in SummaryLines(MaxSummaryEntries + delivered + 1), type \in MsgTypes :
          HandleConsoleMessage(text, type)
    /\ UNCHANGED <<maxEntries, captureAll, disposed, disposePc, summaryFile, effects>>
    /\ UNCHANGED <<waitVars, runVars>>

\* await collector.writeSummary()
SummaryWrite ==
    /\ \E fsFails \in BOOLEAN :
          IF SummaryThrows(fsFails)
          THEN /\ last' = [Snapshot("writeSummary", NoText, JsonNull, FALSE)
                             EXCEPT !.raised = TRUE]
               /\ UNCHANGED summaryFile
          ELSE /\ last' = Snapshot("writeSummary", NoText, JsonNull, FALSE)
               /\ WriteSummaryFile
    /\ UNCHANGED <<maxEntries, captureAll, structuredLogs, rawLogs, structuredStream,
                   rawStream, disposed, disposePc, delivered, effects>>
    /\ UNCHANGED <<waitVars, runVars>>

\* whether the query throws on the current buffer
QueryThrows(query) ==
    IF query = "getStructuredLogs" THEN FALSE
    ELSE IF query = "hasErrors" THEN HasErrors.throws
    ELSE HasNull(structuredLogs)

\* getStructuredLogs(), getLogsByLevel(level), getLogsBySource(source), hasErrors()
SummaryQuery ==
    /\ \E query \in {"getStructuredLogs", "getLogsByLevel", "getLogsBySource", "hasErrors"} :
          last' = [Snapshot(query, NoText, JsonNull, FALSE)
                     EXCEPT !.raised = QueryThrows(query)]
    /\ UNCHANGED <<maxEntries, captureAll, structuredLogs, rawLogs, structuredStream,
                   rawStream, disposed, disposePc, summaryFile, delivered, effects>>
    /\ UNCHANGED <<waitVars, runVars>>

NextSummary ==
    \/ SummaryConsoleEvent
    \/ SummaryWrite
    \/ SummaryQuery

SpecSummary == InitSummary /\ [][NextSummary]_vars

(* ------------ SpecVaults: obsidian.json over several launches ---------- *)
\* Here the content of obsidian.json is spelled out: config.file and
\* config.backup are contents [kind, other, vaults], kind "absent" for a file
\* that does not exist, "corrupt" for one JSON.parse or Object.entries throws
\* on. vaults maps the ids to their entries; "new" is the id setOpenVault
\* draws for a vault it registers. env.configFile is the content before the
\* first launch, env.vaultPath the vaultPath argument. The other
\* specifications keep only "orig" / "modified" of this.
NoVault == [present |-> FALSE, path |-> "none", open |-> "unset", ts |-> "old"]
AbsentContent ==
    [kind |-> "absent", other |-> "none", vaults |-> [id \in {"v1", "v2", "new"} |-> NoVault]]

\* path.resolve, the working directory being /
ResolvePath(p) == IF p \in {"/vault", "vault", "/vault/."} THEN "/vault" ELSE p

\* the contents obsidian.json may have before the first launch
VaultContents ==
    {AbsentContent, [AbsentContent EXCEPT !.kind = "corrupt"]} \cup
    {[kind |-> "json", other |-> "settings",
      vaults |-> [id \in {"v1", "v2", "new"} |->
                     IF id = "v1" THEN a ELSE IF id = "v2" THEN b ELSE NoVault]] :
        a, b \in {NoVault} \cup
                 [present : {TRUE}, path : {"/vault", "/vault/.", "/other"},
                  open : {"unset", "true", "false"}, ts : {"old"}]}

\* setOpenVault that marks the test vault and leaves the other entries as they are
SetOpenVaultKeepsOthersOpen ==
    IF config.file.kind = "absent"
    THEN [threw |-> FALSE, backupPath |-> FALSE, config |-> config]
    ELSE IF config.file.kind = "corrupt"
    THEN [threw |-> TRUE, backupPath |-> FALSE,
          config |-> [config EXCEPT !.backup = config.file]]
    ELSE LET before == config.file.vaults
             isTest(id) == before[id].present
                              /\ ResolvePath(before[id].path) = ResolvePath(env.vaultPath)
             found == \E id \in DOMAIN before : isTest(id)
         IN  [threw |-> FALSE, backupPath |-> TRUE,
              config |->
                 [backup |-> config.file,
                  file |-> [config.file EXCEPT !.vaults =
                      [id \in DOMAIN before |->
                          IF isTest(id)
                          THEN [before[id] EXCEPT !.open = "true", !.ts = "now"]
                          ELSE IF before[id].present
                          THEN before[id]
                          ELSE IF id = "new" /\ ~found
                          THEN [present |-> TRUE, path |-> ResolvePath(env.vaultPath),
                                open |-> "true", ts |-> "now"]
                          ELSE NoVault]]]]

\* setOpenVault(vaultPath) on that content: [threw, backupPath, config]. The
\* backup is written before the content is parsed, whatever it holds and
\* whether or not a backup is there already.
SetOpenVaultContent ==
    IF config.file.kind = "absent"
    THEN [threw |-> FALSE, backupPath |-> FALSE, config |-> config]
    ELSE IF config.file.kind = "corrupt"
    THEN [threw |-> TRUE, backupPath |-> FALSE,
          config |-> [config EXCEPT !.backup = config.file]]
    ELSE LET before == config.file.vaults
             isTest(id) == before[id].present
                              /\ ResolvePath(before[id].path) = ResolvePath(env.vaultPath)
             found == \E id \in DOMAIN before : isTest(id)
         IN  [threw |-> FALSE, backupPath |-> TRUE,
              config |->
                 [backup |-> config.file,
                  file |-> [config.file EXCEPT !.vaults =
                      [id \in DOMAIN before |->
                          IF isTest(id)
                          THEN [before[id] EXCEPT !.open = "true", !.ts = "now"]
                          ELSE IF before[id].present
                          THEN [before[id] EXCEPT !.open = "unset"]
                          ELSE IF id = "new" /\ ~found
                          THEN [present |-> TRUE, path |-> ResolvePath(env.vaultPath),
                                open |-> "true", ts |-> "now"]
                          ELSE NoVault]]]]

\* restoreObsidianConfig(backupPath) on that content
RestoreConfigContent ==
    IF config.backup.kind # "absent"
    THEN [file |-> config.backup, backup |-> AbsentContent]
    ELSE config

InitVaults ==
    /\ InitCollectorFields(Unconstructed)
    /\ NoWait
    /\ pc = "idle"
    /\ env \in [configFile : VaultContents, vaultPath : {"/vault", "vault"}]
    /\ obsidianPath = "none"
    /\ child = NoChild
    /\ obsidian = [defined |-> FALSE, configBackupPath |-> FALSE]
    /\ collector = FALSE
    /\ browser = "none"
    /\ config = [file |-> env.configFile, backup |-> AbsentContent]
    /\ calls = NoCalls

\* launchObsidian: setOpenVault, then the handle is returned, or waitForCDP
\* (or setOpenVault itself) throws and the caller is left without one
VaultsLaunch ==
    /\ pc \in {"idle", "terminated"}
    /\ config' = SetOpenVaultContent.config
    /\ \E ready \in BOOLEAN :
          IF ready /\ ~SetOpenVaultContent.threw
          THEN /\ pc' = "held"
               /\ obsidian' = [defined |-> TRUE,
                               configBackupPath |-> SetOpenVaultContent.backupPath]
          ELSE /\ pc' = "idle"
               /\ obsidian' = [defined |-> FALSE, configBackupPath |-> FALSE]
    /\ UNCHANGED <<collVars, waitVars, env, obsidianPath, child, collector, browser, calls>>

\* closeObsidian(obsidian), lines 291-294
VaultsTerminate ==
    /\ pc = "held"
    /\ config' = IF obsidian.configBackupPath THEN RestoreConfigContent ELSE config
    /\ pc' = "terminated"
    /\ obsidian' = [defined |-> FALSE, configBackupPath |-> FALSE]
    /\ UNCHANGED <<collVars, waitVars, env, obsidianPath, child, collector, browser, calls>>

NextVaults ==
    \/ VaultsLaunch
    \/ VaultsTerminate

SpecVaults == InitVaults /\ [][NextVaults]_vars

(* ------------- SpecLogger: the plugin logger and the collector --------- *)
\* Here env is the one call the plugin makes on its logger:
\* logger(env.source)[env.level](env.message, env.data). The data argument is
\* absent (NoData), a plain JSON object (UserData), null, NaN, a function or
\* a BigInt.
NullData == [kind |-> "null", ref |-> 0, err |-> Undefined]
LoggerData ==
    {NoData, UserData, NullData} \cup
    {[kind |-> k, ref |-> 0, err |-> Undefined] : k \in {"nan", "function", "bigint"}}

\* JSON.stringify throws a TypeError on a BigInt
JsonStringifyThrows(d) == d.kind = "bigint"

\* what JSON.parse reads back for a property JSON.stringify was given:
\* NaN is written as null, a function-valued property is left out
JsonReadBack(d) ==
    IF d.kind = "nan" THEN NullData
    ELSE IF d.kind = "function" THEN NoData
    ELSE d

\* console.debug / log / warn / error as ConsoleMessage.type()
ConsoleType(level) ==
    IF level = "debug" THEN "debug"
    ELSE IF level = "info" THEN "log"
    ELSE IF level = "warn" THEN "warning"
    ELSE "error"

\* emit with ...(data && { data }): falsy data is left out
EmitTruthyData(level, source, message, data) ==
    [threw |-> JsonStringifyThrows(data),
     type |-> ConsoleType(level),
     text |-> Text(message, TRUE, TRUE,
                   JsonObj("t", level, source, message,
                           IF data.kind \in {"null", "nan"} THEN NoData
                           ELSE JsonReadBack(data)))]

\* emit(level, source, message, data): the console line it prints, as the
\* collector will read it: [threw, type, text]
Emit(level, source, message, data) ==
    [threw |-> JsonStringifyThrows(data),
     type |-> ConsoleType(level),
     text |-> Text(message, TRUE, TRUE,
                   JsonObj("t", level, source, message, JsonReadBack(data)))]

LoggerCalls ==
    [level : {"debug", "info", "warn", "error"},
     source : {"A", "B"},
     message : {1},
     data : LoggerData]

InitLogger ==
    /\ \E all \in BOOLEAN : InitCollector(DefaultMaxEntries, all)
    /\ NoWait
    /\ pc = "none"
    /\ env \in LoggerCalls
    /\ obsidianPath = "none"
    /\ child = NoChild
    /\ obsidian = [defined |-> FALSE, configBackupPath |-> FALSE]
    /\ collector = FALSE
    /\ browser = "none"
    /\ config = NoConfig
    /\ calls = NoCalls

\* the plugin makes its call; the page delivers the line to the collector
LoggerEmit ==
    /\ delivered = 0
    /\ LET line == Emit(env.level, env.source, env.message, env.data)
       IN  IF line.threw
           THEN /\ last' = [Snapshot("emit", NoText, JsonNull, FALSE) EXCEPT !.raised = TRUE]
                /\ UNCHANGED <<structuredLogs, structuredStream, rawLogs, rawStream,
                               delivered>>
           ELSE HandleConsoleMessage(line.text, line.type)
    /\ UNCHANGED <<maxEntries, captureAll, disposed, disposePc, summaryFile, effects>>
    /\ UNCHANGED <<waitVars, runVars>>

NextLogger ==
    \/ LoggerEmit
    \/ Dispose
    \/ StructuredStreamFinished
    \/ RawStreamFinished

SpecLogger == InitLogger /\ [][NextLogger]_vars

(* ---------- SpecResolve: the executable path launchObsidian uses ------- *)
\* Here env describes the host as launchObsidian reads it:
\*   platform   os.platform()
\*   override   process.env.OBSIDIAN_PATH: "unset", "empty" (the empty string)
\*              or "set" (a path)
\*   which      what `which obsidian` prints, "none" when it exits non-zero
\*   installed  the well-known locations at which `test -f` succeeds
\* The other specifications keep only the outcome of this step in env.path.
OverridePath == "$OBSIDIAN_PATH"
DarwinPath == "/Applications/Obsidian.app/Contents/MacOS/Obsidian"
Win32Path == "$LOCALAPPDATA/Obsidian/Obsidian.exe"
OnPathOnly == "/opt/Obsidian/obsidian"

\* the fallback list of the linux case, in the order it is tried
LinuxPaths ==
    <<"/usr/bin/obsidian", "/usr/local/bin/obsidian", "/snap/bin/obsidian",
      "$HOME/.local/bin/obsidian">>

Range(s) == {s[i] : i \in DOMAIN s}

\* for (const p of paths) { try { execSync(`test -f "${p}"`); return p } ... }
FirstInstalled(paths, installed) ==
    IF \E i \in DOMAIN paths : paths[i] \in installed
    THEN LET i == CHOOSE k \in DOMAIN paths :
                    /\ paths[k] \in installed
                    /\ \A j \in 1..(k - 1) : paths[j] \notin installed
         IN  [found |-> TRUE, path |-> paths[i]]
    ELSE [found |-> FALSE, path |-> "none"]

\* resolveObsidianPath() with the fallback list tried before `which`
ResolveInstalledBeforeWhich ==
    IF env.platform = "darwin" THEN [threw |-> FALSE, path |-> DarwinPath]
    ELSE IF env.platform = "win32" THEN [threw |-> FALSE, path |-> Win32Path]
    ELSE IF env.platform = "linux"
    THEN IF FirstInstalled(LinuxPaths, env.installed).found
         THEN [threw |-> FALSE, path |-> FirstInstalled(LinuxPaths, env.installed).path]
         ELSE IF env.which # "none"
         THEN [threw |-> FALSE, path |-> env.which]
         ELSE [threw |-> TRUE, path |-> "none"]
    ELSE [threw |-> TRUE, path |-> "none"]

\* resolveObsidianPath(): [threw, path]
ResolveObsidianPath ==
    IF env.platform = "darwin" THEN [threw |-> FALSE, path |-> DarwinPath]
    ELSE IF env.platform = "win32" THEN [threw |-> FALSE, path |-> Win32Path]
    ELSE IF env.platform = "linux"
    THEN IF env.which # "none"
         THEN [threw |-> FALSE, path |-> env.which]
         ELSE IF FirstInstalled(LinuxPaths, env.installed).found
         THEN [threw |-> FALSE, path |-> FirstInstalled(LinuxPaths, env.installed).path]
         ELSE [threw |-> TRUE, path |-> "none"]
    ELSE [threw |-> TRUE, path |-> "none"]

\* process.env.OBSIDIAN_PATH || resolveObsidianPath(): an empty override is falsy
LaunchPath ==
    IF env.override = "set"
    THEN [threw |-> FALSE, path |-> OverridePath]
    ELSE ResolveObsidianPath

Platforms == {"darwin", "win32", "linux", "freebsd"}

\* the locations a host of that platform can have the executable at
WellKnown(platform) ==
    IF platform = "darwin" THEN {DarwinPath}
    ELSE IF platform = "win32" THEN {Win32Path}
    ELSE IF platform = "linux" THEN Range(LinuxPaths)
    ELSE {}

\* `which` prints a file that exists: one outside the well-known locations, or
\* an installed well-known location that is on the PATH
Hosts ==
    {h \in [platform : Platforms,
            override : {"unset", "empty", "set"},
            which : {"none", OnPathOnly} \cup Range(LinuxPaths),
            installed : SUBSET (Range(LinuxPaths) \cup {DarwinPath, Win32Path})] :
        /\ h.installed \subseteq WellKnown(h.platform)
        /\ h.which \in {"none", OnPathOnly} \cup h.installed}

InitResolve ==
    /\ InitCollectorFields(Unconstructed)
    /\ NoWait
    /\ pc = "resolve"
    /\ env \in Hosts
    /\ obsidianPath = "none"
    /\ child = NoChild
    /\ obsidian = [defined |-> FALSE, configBackupPath |-> FALSE]
    /\ collector = FALSE
    /\ browser = "none"
    /\ config = NoConfig
    /\ calls = NoCalls

\* launchObsidian, line 204
ResolveLaunchPath ==
    /\ pc = "resolve"
    /\ IF LaunchPath.threw
       THEN Throw("resolve") /\ UNCHANGED obsidianPath
       ELSE pc' = "setvault" /\ obsidianPath' = LaunchPath.path /\ UNCHANGED calls
    /\ UNCHANGED <<collVars, waitVars, env, child, obsidian, collector, browser, config>>

NextResolve ==
    \/ ResolveLaunchPath

SpecResolve == InitResolve /\ [][NextResolve]_vars

(* ======================= properties of the collector =================== *)
\* the last operation handed an entry to writeStructured on a live collector
Ingested == last.op \in {"console", "pageerror"} /\ last.handed /\ ~last.disposedBefore
\* the buffer right after that entry was pushed, before any rotation
Pushed == Append(last.logsBefore, last.entry)
\* the last ingest pushed the buffer past its capacity
PastCapacity == Ingested /\ Len(Pushed) > maxEntries
CeilHalf(c) == (c + 1) \div 2
FloorHalf(c) == c \div 2
\* the n most recent elements of s, and s without its n oldest elements
MostRecent(s, n) == IF n >= Len(s) THEN s ELSE SubSeq(s, Len(s) - n + 1, Len(s))
DropOldest(s, n) == IF n >= Len(s) THEN <<>> ELSE SubSeq(s, n + 1, Len(s))

\* C3: for every capacity >= 1 the buffer length is at most the capacity
\* after each ingest.
C3_BufferBound == Len(structuredLogs) <= maxEntries

\* C4: an ingest that pushes the buffer past its capacity leaves exactly the
\* most recent ceil(capacity/2) entries, the newest included.
C4_KeepsCeilHalf ==
    PastCapacity => structuredLogs = MostRecent(Pushed, CeilHalf(maxEntries))

\* C5: a rotation evicts exactly the oldest ceil(capacity/2) entries
\* and the survivors keep their arrival order.
C5_EvictsCeilHalf ==
    PastCapacity => structuredLogs = DropOldest(Pushed, CeilHalf(maxEntries))

\* the last operation was a console line with the marker and a malformed remainder
MalformedIngest == last.op = "console" /\ last.text.marker /\ ~last.text.valid

\* e is a warn-level entry of the collector carrying the raw text and the parse error
IsDemotionOf(e, text) ==
    /\ e.kind = "obj"
    /\ e.level = "warn"
    /\ e.source = "log-collector"
    /\ e.data.kind = "fallback"
    /\ e.data.ref = text.id
    /\ e.data.err # Undefined

\* C6 as stated: a malformed marked line adds one warn entry of the collector
\* with the raw text and the error, the buffer grows by exactly one, nothing is raised.
C6_MalformedGrowsByOne ==
    MalformedIngest =>
        /\ Len(structuredLogs) = last.lenBefore + 1
        /\ IsDemotionOf(structuredLogs[Len(structuredLogs)], last.text)
        /\ ~last.raised

\* C6 amended: on a collector not yet disposed a malformed marked line adds
\* exactly one warn entry of the collector (raw text and error in its payload) as
\* the newest buffer entry and as one line of the structured stream, and raises
\* nothing; the buffer length grows by exactly one unless the push passes the
\* capacity and the rotation leaves only the most recent entries of the buffer,
\* the new one included. After dispose the line adds nothing to the buffer or
\* the stream, and raises nothing.
C6_MalformedDemoted ==
    MalformedIngest =>
        IF last.disposedBefore
        THEN /\ structuredLogs = last.logsBefore
             /\ Len(structuredStream.lines) = last.linesBefore
             /\ ~last.raised
        ELSE /\ Len(structuredLogs) >= 1
             /\ IsDemotionOf(structuredLogs[Len(structuredLogs)], last.text)
             /\ Len(structuredStream.lines) = last.linesBefore + 1
             /\ structuredStream.lines[Len(structuredStream.lines)]
                    = Stringify(structuredLogs[Len(structuredLogs)])
             /\ \/ structuredLogs = Pushed
                \/ /\ Len(Pushed) > maxEntries
                   /\ Len(structuredLogs) < Len(Pushed)
                   /\ structuredLogs = MostRecent(Pushed, Len(structuredLogs))
             /\ ~last.raised

C6_Witness ==
    /\ MalformedIngest
    /\ ~last.disposedBefore
    /\ last.lenBefore + 1 > maxEntries
    /\ Len(structuredLogs) = 1
    /\ IsDemotionOf(structuredLogs[1], last.text)

\* C7: every entry of the buffer has the four required fields (a marked line
\* that parses to something else is stored as a synthesized warn entry).
C7_EntriesHaveRequiredFields ==
    \A i \in 1..Len(structuredLogs) : HasRequiredFields(structuredLogs[i])

\* C8: hasErrors() is true iff getLogsByLevel("error") is non-empty.
C8_HasErrorsIffErrorLogs ==
    (~HasErrors.throws /\ HasErrors.value)
        <=> (~GetLogsByLevel("error").throws /\ Len(GetLogsByLevel("error").value) > 0)

(* ================= properties of the launcher and the runner ============ *)
RunEnded == pc \in {"done", "exited"}

\* C1: a run that spawned a target process has executed closeObsidian on it
\* exactly once by the time it ends, whichever phase failed.
C1_SpawnedProcessClosedOnce == (RunEnded /\ child.pid) => calls.close = 1

C9_MissingExecutableFailsAtOnce ==
    (env.path = "override" /\ ~env.exeExists) =>
        /\ ~probed
        /\ ~(obsidian.defined /\ child.pid)

(* ========================= properties of waitForCDP ==================== *)
\* C10: against an endpoint that never becomes ready, waitForCDP throws after
\* an elapsed time t with timeout <= t < timeout + PollInterval.
C10_TimeoutWithinOnePoll ==
    wpc = "thrown" => (timeout <= elapsed /\ elapsed < timeout + PollInterval)

(* ========================= properties of closeObsidian ================= *)
\* a step on which a closeObsidian call returns because its grace timer fired
\* on a process that accepted SIGTERM and is still alive
GraceEndsOnLiveProcess ==
    /\ pc = "closing"
    /\ pc' = "held"
    /\ elapsed >= GracePeriod
    /\ child.alive
    /\ child.signals = <<"SIGTERM">>

\* C11: when the grace period ends on a process that accepted SIGTERM and is
\* still alive, SIGKILL is sent to it before closeObsidian returns.
C11_ForceKillAfterGrace ==
    [][GraceEndsOnLiveProcess => child'.signals = <<"SIGTERM", "SIGKILL">>]_vars

\* C12: every closeObsidian call returns, whatever the process does.
C12_CloseAlwaysReturns == (pc = "closing") ~> (pc = "held")

\* a call that waited out the grace period on a process that was already dead
\* and returned
C12_Witness ==
    /\ pc = "held"
    /\ calls.close = 1
    /\ elapsed >= GracePeriod
    /\ ~child.alive
    /\ child.signals = <<>>

\* C13: from the second closeObsidian call on the same handle on, no signal
\* reaches the process and the config is neither restored nor changed again.
C13_SecondCloseNoSideEffects ==
    [][calls'.close >= 2 =>
          /\ child'.signals = child.signals
          /\ config' = config
          /\ calls'.restores = calls.restores]_vars

\* a second call returned on a handle whose config the first call restored
C13_Witness ==
    /\ pc = "held"
    /\ calls.close = 2
    /\ calls.restores = 1
    /\ child.killed

\* the target died without ever having been signalled
DiedOnItsOwn == ~child.alive /\ child.signals = <<>>

\* C15: when the launcher modified the config and the process died on its own,
\* a closeObsidian call that has returned has restored the original config,
\* exactly once.
C15_RestoresAfterOwnDeath ==
    (DiedOnItsOwn /\ obsidian.configBackupPath /\ pc = "held" /\ calls.close >= 1) =>
        /\ config = [file |-> env.configFile, backup |-> "absent"]
        /\ calls.restores = 1

\* the process was dead when closeObsidian was called: the call waited out the
\* grace period and restored the config
C15_Witness ==
    /\ DiedOnItsOwn
    /\ env.signalable
    /\ obsidian.configBackupPath
    /\ pc = "held"
    /\ calls.close = 1
    /\ elapsed >= GracePeriod
    /\ config.file = "orig"

(* ===================== properties of dispose and teardown ============== *)
\* C14: once dispose has been called, a further call is a no-op, whether the
\* first call has returned or is still ending the streams: the summary file is
\* not rewritten, no stream is ended again and no new rejection occurs.
C14_SecondDisposeNoOp ==
    [][disposed =>
          /\ summaryFile' = summaryFile
          /\ effects'.disposals = effects.disposals
          /\ effects'.summaries = effects.summaries
          /\ effects'.structuredEnds = effects.structuredEnds
          /\ effects'.rawEnds <= 1
          /\ (disposePc' = "rejected" => disposePc = "rejected")]_vars

\* a second dispose call arrived while the first was still ending the streams
C14_Witness ==
    /\ last.op = "dispose-noop"
    /\ disposePc \in {"ending-structured", "ending-raw"}
    /\ effects.disposals = 1

\* C20: a dispose whose summary write failed has still ended both streams.
C20_FailedDisposeEndsStreams ==
    disposePc = "rejected" =>
        /\ structuredStream.state \in {"ending", "finished"}
        /\ rawStream.state \in {"ending", "finished", "null"}

\* the run ended after the given step of main threw
RunFailedAt(causes) == pc = "done" /\ calls.failure \in causes

\* obsidian.json has its pre-run content
ConfigAsBeforeRun == config.file = env.configFile

\* C16: when a run ends, obsidian.json is back to its pre-run content, also
\* when the launch failed or timed out after setOpenVault modified it.
C16_ConfigScopedToRun == pc = "done" => ConfigAsBeforeRun

\* the teardown of a run that failed for lack of an attachable page:
\* closeObsidian called once on the handle, the config restored
TornDown == calls.close = 1 /\ ConfigAsBeforeRun

\* C17: a run that fails because no page can be attached and a run that fails
\* with a readiness timeout end after the same teardown.
C17_ConnectFailureLikeTimeout == RunFailedAt({"timeout", "page"}) => TornDown

\* an error-level entry written by the runner itself
OrchestratorError(e) == e.kind = "obj" /\ e.level = "error" /\ e.source = "run-and-collect"

\* C18: after a readiness timeout the structured log and the summary of the
\* run hold an error-level entry of the runner that records the timeout.
C18_TimeoutIsLogged ==
    RunFailedAt({"timeout"}) =>
        /\ \E i \in 1..Len(structuredStream.lines) :
              OrchestratorError(structuredStream.lines[i].json)
        /\ summaryFile.present
        /\ \E i \in 1..Len(summaryFile.recentErrors) :
              OrchestratorError(summaryFile.recentErrors[i])

\* C19: a failed run leaves every captured structured and raw record in the
\* stream files and a summary written by this run.
C19_FailedRunLeavesLogsAndSummary ==
    (pc = "done" /\ calls.failure # "none") =>
        /\ Len(structuredStream.lines) = Len(structuredLogs)
        /\ Len(rawStream.lines) = Len(rawLogs)
        /\ summaryFile.present
        /\ summaryFile = SummaryOf(structuredLogs)

(* ---------------------- claims: path resolution ------------------------ *)
PathResolved == pc # "resolve"
ResolveFailed == pc = "catch" /\ calls.failure = "resolve" /\ obsidianPath = "none"

\* the installed location that comes first in the order the list is tried
IsFirstInstalled(path) ==
    \E i \in DOMAIN LinuxPaths :
        /\ LinuxPaths[i] = path
        /\ path \in env.installed
        /\ \A j \in 1..(i - 1) : LinuxPaths[j] \notin env.installed

\* C28 as stated: the path is the explicit override if there is one, else an
\* installed well-known location if there is one, else what the PATH lookup
\* finds, and resolution fails only when none of the three yields a path.
C28_OverrideThenInstalledThenPath ==
    PathResolved =>
        IF env.override = "set" THEN obsidianPath = OverridePath
        ELSE IF env.installed # {} THEN obsidianPath \in env.installed
        ELSE IF env.which # "none" THEN obsidianPath = env.which
        ELSE ResolveFailed

\* C28, amended: the path is the explicit override if one is set; otherwise on
\* Linux it is what the PATH lookup finds, else the first installed well-known
\* location, and resolution fails only when both yield nothing; on macOS and
\* Windows it is the platform's fixed install location whether or not the
\* executable is there; on any other platform resolution fails.
C28_OverrideThenPathThenInstalled ==
    PathResolved =>
        IF env.override = "set" THEN obsidianPath = OverridePath
        ELSE IF env.platform = "linux"
        THEN IF env.which # "none" THEN obsidianPath = env.which
             ELSE IF env.installed # {} THEN IsFirstInstalled(obsidianPath)
             ELSE ResolveFailed
        ELSE IF env.platform = "darwin" THEN obsidianPath = DarwinPath
        ELSE IF env.platform = "win32" THEN obsidianPath = Win32Path
        ELSE ResolveFailed

\* a Linux host without an override where both the PATH lookup and a
\* well-known location yield a path, and they differ
C28_Witness ==
    /\ PathResolved
    /\ env.platform = "linux"
    /\ env.override # "set"
    /\ env.which = OnPathOnly
    /\ env.installed # {}
    /\ obsidianPath = OnPathOnly

(* ------------------- claims: order and raw capture --------------------- *)
\* the position in the delivery order an entry carries (0: it carries none)
EntryId(e) ==
    IF e.kind = "null" THEN 0
    ELSE IF e.data.kind = "fallback" THEN e.data.ref
    ELSE e.message

\* a and b are not out of delivery order, nor one delivery stored twice
InOrder(a, b) == EntryId(a) = 0 \/ EntryId(b) = 0 \/ EntryId(a) < EntryId(b)

\* C21: the entries of the buffer and the lines of the structured stream are
\* in the order the console lines and uncaught-error notifications were
\* delivered: entries never swap places or merge, the entry of the latest
\* delivery is the newest of the buffer and the one new line at the end of the
\* stream, and the buffer holds the same entries as the tail of the stream.
C21_DeliveryOrderKept ==
    /\ \A i, j \in DOMAIN structuredLogs :
          i < j => InOrder(structuredLogs[i], structuredLogs[j])
    /\ \A i, j \in DOMAIN structuredStream.lines :
          i < j => InOrder(structuredStream.lines[i].json, structuredStream.lines[j].json)
    /\ Len(structuredLogs) <= Len(structuredStream.lines)
    /\ \A k \in DOMAIN structuredLogs :
          Stringify(structuredLogs[k])
              = structuredStream.lines[Len(structuredStream.lines) - Len(structuredLogs) + k]
    /\ Ingested =>
          /\ structuredLogs # <<>>
          /\ structuredLogs[Len(structuredLogs)] = last.entry
          /\ Len(structuredStream.lines) = last.linesBefore + 1
          /\ structuredStream.lines[Len(structuredStream.lines)] = Stringify(last.entry)

\* a third delivery stored behind an uncaught error and a console line
C21_Witness ==
    /\ Ingested
    /\ Len(structuredLogs) = 3
    /\ structuredLogs[1].source = "page-error"
    /\ structuredLogs[2].source = "A"
    /\ Len(structuredStream.lines) = 3

\* C22: with raw capture enabled every delivered console line, structured or
\* not, is exactly one record of the raw stream, carrying the line's text and
\* type, and the records are in delivery order; with raw capture disabled
\* there is no raw stream and no raw record.
C22_OneRawRecordPerLine ==
    IF captureAll
    THEN /\ \A i, j \in DOMAIN rawStream.lines :
               i < j => rawStream.lines[i].text.id < rawStream.lines[j].text.id
         /\ last.op = "console" =>
               /\ rawStream.lines # <<>>
               /\ \E type \in MsgTypes :
                     rawStream.lines[Len(rawStream.lines)] = RawEntry(last.text, type)
    ELSE /\ rawStream.state = "null"
         /\ rawStream.lines = <<>>

\* C26: dispose writes the summary before it ends a stream, and it has
\* returned only when both streams have finished with every record written
\* before the call.
C26_DisposeSummaryThenFlush ==
    /\ structuredStream.state \in {"ending", "finished"} =>
          summaryFile.present /\ effects.summaries = 1
    /\ rawStream.state \in {"ending", "finished"} =>
          summaryFile.present /\ effects.summaries = 1
    /\ disposePc = "resolved" =>
          /\ structuredStream.state = "finished"
          /\ rawStream.state = IF captureAll THEN "finished" ELSE "null"
          /\ ~structuredStream.failed
          /\ last.op = "dispose" =>
                /\ Len(structuredStream.lines) = last.linesBefore
                /\ \A k \in DOMAIN last.logsBefore :
                      \E i \in DOMAIN structuredStream.lines :
                          structuredStream.lines[i] = Stringify(last.logsBefore[k])

\* dispose has returned on a collector with records in both streams
C26_Witness ==
    /\ disposePc = "resolved"
    /\ last.op = "dispose"
    /\ captureAll
    /\ Len(structuredStream.lines) >= 2
    /\ rawStream.lines # <<>>
    /\ rawStream.state = "finished"

\* C30 as stated: a console line without the marker leaves the buffer and the
\* structured stream as they were, and a line with the marker adds exactly
\* one entry, the parsed value or its demotion, to the structured stream.
C30_MarkerIffStructured ==
    last.op = "console" =>
        IF last.text.marker
        THEN /\ Len(structuredStream.lines) = last.linesBefore + 1
             /\ structuredStream.lines[Len(structuredStream.lines)] = Stringify(last.entry)
             /\ last.entry = IF last.text.valid THEN last.text.value ELSE Fallback(last.text)
        ELSE /\ structuredLogs = last.logsBefore
             /\ Len(structuredStream.lines) = last.linesBefore

\* C30, amended: before dispose a line with the marker adds exactly one entry,
\* parsed or demoted, to the structured stream; a line without the marker, and
\* any line after dispose, leaves the buffer and the structured stream as
\* they were.
C30_MarkerIffStructuredUntilDispose ==
    last.op = "console" =>
        IF last.text.marker /\ ~last.disposedBefore
        THEN /\ Len(structuredStream.lines) = last.linesBefore + 1
             /\ structuredStream.lines[Len(structuredStream.lines)] = Stringify(last.entry)
             /\ last.entry = IF last.text.valid THEN last.text.value ELSE Fallback(last.text)
        ELSE /\ structuredLogs = last.logsBefore
             /\ Len(structuredStream.lines) = last.linesBefore

\* an unmarked line delivered to a live collector that already holds entries
C30_Witness ==
    /\ last.op = "console"
    /\ ~last.text.marker
    /\ ~last.disposedBefore
    /\ last.lenBefore >= 1
    /\ last.linesBefore >= 1

(* --------------------- claims: summary and queries --------------------- *)
SummaryWritten == last.op = "writeSummary" /\ ~last.raised
\* how many entries of s have the given level
CountLevel(s, level) == Cardinality({i \in DOMAIN s : s[i].level = level})
Min(a, b) == IF a <= b THEN a ELSE b

\* C23: a summary is computed from the buffer as it is when the summary is
\* written: totalEntries is the buffer length, errors and warnings count its
\* error and warn entries, sources is the set of its distinct sources; the
\* five entries info, info, warn, info, error of A, B, A, C, B give 5, 1, 1
\* and {A, B, C}.
C23_SummaryFromCurrentBuffer ==
    SummaryWritten =>
        /\ summaryFile.present
        /\ summaryFile.totalEntries = Len(structuredLogs)
        /\ summaryFile.errors = CountLevel(structuredLogs, "error")
        /\ summaryFile.warnings = CountLevel(structuredLogs, "warn")
        /\ summaryFile.sources = {structuredLogs[i].source : i \in DOMAIN structuredLogs}
        /\ structuredLogs = ExampleBuffer =>
              /\ summaryFile.totalEntries = 5
              /\ summaryFile.errors = 1
              /\ summaryFile.warnings = 1
              /\ summaryFile.sources = {"A", "B", "C"}

\* a summary written after one more error line followed more than
\* RecentErrorsMax errors
C23_Witness ==
    /\ SummaryWritten
    /\ delivered = 1
    /\ last.lenBefore = MaxSummaryEntries + 1
    /\ summaryFile.errors > RecentErrorsMax + 1
    /\ summaryFile.totalEntries = MaxSummaryEntries + 1

\* C24: recentErrors holds the last min(20, e) error entries, recentWarnings
\* the last min(10, w) warn entries and lastEntries the last min(30, n)
\* entries of the buffer, each in arrival order.
C24_RecentListsAreTails ==
    SummaryWritten =>
        LET errors == SelectSeq(structuredLogs, LAMBDA e : e.level = "error")
            warnings == SelectSeq(structuredLogs, LAMBDA e : e.level = "warn")
        IN  /\ Len(summaryFile.recentErrors) = Min(RecentErrorsMax, Len(errors))
            /\ summaryFile.recentErrors = MostRecent(errors, Len(summaryFile.recentErrors))
            /\ Len(summaryFile.recentWarnings) = Min(RecentWarningsMax, Len(warnings))
            /\ summaryFile.recentWarnings
                  = MostRecent(warnings, Len(summaryFile.recentWarnings))
            /\ Len(summaryFile.lastEntries) = Min(LastEntriesMax, Len(structuredLogs))
            /\ summaryFile.lastEntries
                  = MostRecent(structuredLogs, Len(summaryFile.lastEntries))

\* a summary of a buffer with more errors, warnings and entries than the
\* three lists hold
C24_Witness ==
    /\ SummaryWritten
    /\ summaryFile.errors > RecentErrorsMax
    /\ summaryFile.warnings > RecentWarningsMax
    /\ summaryFile.totalEntries > LastEntriesMax
    /\ Len(summaryFile.recentErrors) = RecentErrorsMax
    /\ Len(summaryFile.recentWarnings) = RecentWarningsMax
    /\ Len(summaryFile.lastEntries) = LastEntriesMax

\* v holds elements of s in the order they have in s
RECURSIVE IsSubSeq(_, _)
IsSubSeq(v, s) ==
    IF v = <<>> THEN TRUE
    ELSE IF s = <<>> THEN FALSE
    ELSE IF Head(v) = Head(s) THEN IsSubSeq(Tail(v), Tail(s))
    ELSE IsSubSeq(v, Tail(s))

\* result is exactly the entries of the buffer with that value in that field
\* ("level" or "source"), in arrival order
IsExactFilter(result, field, value) ==
    LET Field(e) == IF field = "level" THEN e.level ELSE e.source
    IN  /\ ~result.throws
        /\ \A i \in DOMAIN result.value : Field(result.value[i]) = value
        /\ Len(result.value)
              = Cardinality({i \in DOMAIN structuredLogs : Field(structuredLogs[i]) = value})
        /\ IsSubSeq(result.value, structuredLogs)

\* C25: a query (getStructuredLogs, getLogsByLevel, getLogsBySource,
\* hasErrors, writeSummary) leaves the buffer, the disposed flag and both
\* streams as they were, and the level and source filters return exactly the
\* matching entries of the buffer in arrival order.
C25_QueriesPureAndExact ==
    /\ [][last'.op \in {"getStructuredLogs", "getLogsByLevel", "getLogsBySource",
                        "hasErrors", "writeSummary"}
            => UNCHANGED <<structuredLogs, disposed, structuredStream, rawStream>>]_vars
    /\ [](\A level \in {"info", "warn", "error", "debug"} :
             IsExactFilter(GetLogsByLevel(level), "level", level))
    /\ [](\A source \in {"A", "B", "C", "log-collector"} :
             IsExactFilter(GetLogsBySource(source), "source", source))

(* ------------------- claims: the run, step by step --------------------- *)
\* a readiness poll of the spawned process is in flight
PollInFlight == pc = "wait" /\ child.spawned /\ wpc \in {"check", "probe", "sleep"}

\* C27: while a readiness poll is in flight the caller can terminate the
\* spawned process: it holds the handle that closeObsidian takes.
C27_TerminableDuringPoll == PollInFlight => obsidian.defined

\* the positions of main in a run in which no step fails, in program order
RunOrder ==
    <<"start", "resolve", "setvault", "spawn", "wait", "connect", "page", "collector",
      "load", "shot1", "sleep", "shot2", "summary", "dispose", "disposing", "bclose",
      "finally", "closing", "done">>
Rank(position) == CHOOSE i \in DOMAIN RunOrder : RunOrder[i] = position
\* main has completed the step it takes at that position
Past(position) == Rank(pc) > Rank(position)

\* C29: in a run without a failure the steps happen in the order spawn,
\* endpoint ready, session attached, collector subscribed, capture timer
\* elapsed, summary written, collector disposed, session closed, process
\* terminated and configuration restored; in particular the summary is not
\* written before the timer has elapsed and the process is not terminated
\* before the summary is written.
C29_StepsInOrder ==
    (calls.failure = "none" /\ pc # "exited") =>
        /\ child.spawned <=> Past("spawn")
        /\ obsidian.defined <=> Past("wait")
        /\ browser # "none" <=> Past("connect")
        /\ collector <=> Past("collector")
        /\ summaryFile.present <=> Past("summary")
        /\ Past("summary") => Past("sleep")
        /\ disposed <=> Past("dispose")
        /\ disposePc # "idle" <=> Past("dispose")
        /\ Past("disposing") => disposePc = "resolved"
        /\ browser = "closed" => Past("bclose")
        /\ calls.close = (IF Past("finally") THEN 1 ELSE 0)
        /\ child.signals # <<>> => Past("finally") /\ summaryFile.present
        /\ calls.restores >= 1 => pc = "done"
        /\ pc = "done" /\ obsidian.configBackupPath => calls.restores = 1

\* a run without a failure that has ended: session closed, process gone,
\* configuration restored
C29_Witness ==
    /\ pc = "done"
    /\ calls.failure = "none"
    /\ summaryFile.present
    /\ disposePc = "resolved"
    /\ browser = "closed"
    /\ calls.close = 1
    /\ calls.restores = 1
    /\ ~child.alive
    /\ ConfigAsBeforeRun

(* ------------------ claims: memory and poll pacing --------------------- *)
\* C31: the records the collector holds in memory, structured buffer and raw
\* list together, never exceed a bound fixed by its configuration: each of
\* the two lists stays within maxEntries.
C31_MemoryBounded == Len(structuredLogs) + Len(rawLogs) <= maxEntries + maxEntries

\* C32: a probe that ended without an endpoint, whether it failed, timed out
\* or answered without one, is followed by a wait of at least PollInterval
\* before the loop looks at the clock again, and only the loop condition
\* starts a probe: no probe starts less than PollInterval after the one before.
C32_ProbesPaced ==
    [][/\ wpc = "probe" => wpc' \in {"sleep", "returned"}
       /\ wpc = "sleep" => (wpc' = "check" /\ elapsed' >= elapsed + PollInterval)
       /\ wpc' = "check" => wpc = "sleep"
       /\ wpc' = "probe" => (wpc = "check" /\ elapsed' = elapsed)]_vars

\* a probe started after an earlier one that answered at once
C32_Witness ==
    /\ wpc = "probe"
    /\ elapsed = PollInterval

(* ---------------------- claims: logger round trip ---------------------- *)
\* the newest buffer entry is the one entry the logger call produced
IngestedAsCalled ==
    /\ last.text.marker
    /\ Len(structuredLogs) = last.lenBefore + 1
    /\ structuredLogs[Len(structuredLogs)].kind = "obj"
    /\ structuredLogs[Len(structuredLogs)].level = env.level
    /\ structuredLogs[Len(structuredLogs)].source = env.source
    /\ structuredLogs[Len(structuredLogs)].message = env.message
    /\ structuredLogs[Len(structuredLogs)].data = env.data

\* C33 as stated: whatever level, source, message and data the logger was
\* called with, the line it emits is taken as structured and ingested as one
\* entry with that level, source, message and data (no data if none given).
C33_LoggerRoundTrip == last.op = "console" => IngestedAsCalled

\* C33, amended: the same for data that is absent or that JSON represents
\* without loss, and for a line that reaches the collector before dispose.
C33_LoggerRoundTripOfJson ==
    (/\ last.op = "console"
     /\ ~last.disposedBefore
     /\ env.data \in {NoData, UserData, NullData}) => IngestedAsCalled

\* a debug call with a data object, ingested by a live collector
C33_Witness ==
    /\ last.op = "console"
    /\ ~last.disposedBefore
    /\ env.level = "debug"
    /\ env.data = UserData
    /\ Len(structuredLogs) = 1
    /\ structuredLogs[1].data = UserData
    /\ Len(structuredStream.lines) = 1

(* ------------- claims: persistence, page errors, after dispose ---------- *)
\* C34: a step that accepts an entry appends its line to the persisted stream
\* and leaves in the buffer a run of the most recent entries that ends with
\* it; any other step leaves both alone; so the stream keeps every accepted
\* entry in arrival order, rotation or not, and the buffer is at all times a
\* contiguous suffix of the stream's entries.
C34_BufferIsSuffixOfStream ==
    /\ [](/\ Len(structuredLogs) <= Len(structuredStream.lines)
          /\ [k \in DOMAIN structuredLogs |-> Stringify(structuredLogs[k])]
                = MostRecent(structuredStream.lines, Len(structuredLogs)))
    /\ [][IF delivered' # delivered /\ last'.handed /\ ~disposed
          THEN /\ structuredStream'.lines
                     = Append(structuredStream.lines, Stringify(last'.entry))
               /\ \E n \in 1..(Len(structuredLogs) + 1) :
                     structuredLogs' = MostRecent(Append(structuredLogs, last'.entry), n)
          ELSE /\ structuredStream'.lines = structuredStream.lines
               /\ structuredLogs' = structuredLogs]_vars

\* a rotation has left the buffer shorter than the stream
C34_Witness ==
    /\ PastCapacity
    /\ Len(structuredLogs) >= 1
    /\ Len(structuredLogs) + 2 <= Len(structuredStream.lines)

\* C35: an uncaught-error notification that reaches a live collector is
\* recorded as exactly one error entry of source "page-error" with the error's
\* message and stack, as the newest buffer entry and one line of the stream
\* like a parsed entry, and hasErrors() is true right afterwards.
C35_PageErrorRecorded ==
    (last.op = "pageerror" /\ ~last.disposedBefore) =>
        /\ structuredLogs # <<>>
        /\ structuredLogs[Len(structuredLogs)] = last.entry
        /\ last.entry.level = "error"
        /\ last.entry.source = "page-error"
        /\ last.entry.message # 0
        /\ last.entry.data.kind = "stack"
        /\ Len(structuredStream.lines) = last.linesBefore + 1
        /\ structuredStream.lines[Len(structuredStream.lines)] = Stringify(last.entry)
        /\ HasErrors = [throws |-> FALSE, value |-> TRUE]

\* C37: once dispose has been called no step writes to the structured or the
\* raw stream or changes the buffer or the raw list, and when dispose has
\* returned the summary on disk is the summary of the buffer.
C37_NothingAfterDispose ==
    /\ [][disposed =>
             /\ structuredLogs' = structuredLogs
             /\ rawLogs' = rawLogs
             /\ structuredStream'.lines = structuredStream.lines
             /\ rawStream'.lines = rawStream.lines
             /\ ~rawStream'.failed
             /\ ~structuredStream'.failed]_vars
    /\ [](disposePc = "resolved" => summaryFile = SummaryOf(structuredLogs))

\* C39: a run that attached a debug session has closed it when the run ends,
\* and the process is not sent a signal while the session is still open.
C39_SessionClosedBeforeExit ==
    /\ pc = "done" => browser \in {"none", "closed"}
    /\ child.signals # <<>> => browser \in {"none", "closed"}

(* ------------------ claims: the shared configuration ------------------- *)
\* setOpenVault has just returned without throwing, the handle is out
AfterSetOpenVault == pc = "held"
\* the entry is the vault the launch asked for
IsRequested(v) == v.present /\ ResolvePath(v.path) = ResolvePath(env.vaultPath)
\* the requested vault, present and open; every other entry without an open
\* flag; entries that were there keep their id and path; an entry is new only
\* if the vault was not registered before, and then it is the one entry added
VaultsSetOpen(before, after) ==
    /\ after.kind = "json"
    /\ \E id \in DOMAIN after.vaults :
          IsRequested(after.vaults[id]) /\ after.vaults[id].open = "true"
    /\ \A id \in DOMAIN after.vaults :
          /\ IsRequested(after.vaults[id]) => after.vaults[id].open = "true"
          /\ (after.vaults[id].present /\ ~IsRequested(after.vaults[id]))
                => after.vaults[id].open = "unset"
          /\ before.vaults[id].present =>
                /\ after.vaults[id].present
                /\ after.vaults[id].path = before.vaults[id].path
          /\ (after.vaults[id].present /\ ~before.vaults[id].present) =>
                /\ \A other \in DOMAIN before.vaults : ~IsRequested(before.vaults[other])
                /\ after.vaults[id].path = ResolvePath(env.vaultPath)
    /\ after.other = before.other

\* C36 as stated: after setOpenVault succeeded the requested vault is in the
\* configuration and open, no other entry has an open flag, a vault that was
\* not registered has been added, and nothing else in the configuration has
\* changed.
C36_OnlyRequestedVaultOpen ==
    AfterSetOpenVault =>
        /\ VaultsSetOpen(config.backup, config.file)
        /\ \A id \in DOMAIN config.file.vaults :
              config.backup.vaults[id].present =>
                  config.file.vaults[id].ts = config.backup.vaults[id].ts

\* C36, amended: the same after a setOpenVault that found the configuration
\* file, and with the ts of the requested vault's entries set to the time of
\* the call; every other entry keeps its ts.
C36_OnlyRequestedVaultOpenTsUpdated ==
    (AfterSetOpenVault /\ obsidian.configBackupPath) =>
        /\ VaultsSetOpen(config.backup, config.file)
        /\ \A id \in DOMAIN config.file.vaults :
              config.backup.vaults[id].present =>
                  config.file.vaults[id].ts
                      = IF IsRequested(config.backup.vaults[id]) THEN "now"
                        ELSE config.backup.vaults[id].ts

\* an unregistered vault was added while another vault, open before, was closed
C36_Witness ==
    /\ AfterSetOpenVault
    /\ obsidian.configBackupPath
    /\ ~config.backup.vaults["new"].present
    /\ config.file.vaults["new"].present
    /\ config.backup.vaults["v1"].open = "true"
    /\ config.file.vaults["v1"].open = "unset"

\* C38: whatever launches failed or were left unterminated before, when a
\* launch has been terminated the configuration file has the content it had
\* before the first launch.
C38_ConfigSurvivesRuns == pc = "terminated" => config.file = env.configFile

====
